---- MODULE Spec2Model ----
(***************************************************************************)
(* Model of resources/assets/uad_edit.py: the script that loads            *)
(* uad_lists2.json, strips neededBy / labels / dependencies from every     *)
(* entry, renames the removal tiers Recommended -> Safe and                *)
(* Expert -> Disruptive, and dumps the result to uad_listNew.json.         *)
(*                                                                         *)
(* JSON values are tagged records.  A value that is an entry of the        *)
(* Document (app_data) is [t, toks, rec]:                                  *)
(*   t    : "obj" | "null" | "num" | "bool" | "str" | "arr"                *)
(*   toks : for "str" the words the string is made of (a field name is a   *)
(*          substring of the string iff it is one of its words); for "arr" *)
(*          the string elements of the list; <<>> otherwise                *)
(*   rec  : for "obj" the dict, a function from field names to field       *)
(*          values; the empty function otherwise                           *)
(* A field value is [t, s, keys]: its JSON type, its text when it is a     *)
(* string (for "arr": the single string element it holds) and, for a       *)
(* nested object, the set of its keys.                                     *)
(***************************************************************************)
EXTENDS Integers, Sequences, FiniteSets, TLC

\* Largest number of entries of a Document built from CoreValues.
MaxApps == 3

AppIds == {"com.a", "com.b", "com.c", "com.d"}

StripKeys == {"neededBy", "labels", "dependencies"}

FieldNames == StripKeys \cup {"removal", "other"}

----------------------------------------------------------------------------
(* JSON values *)

FV(t, s, keys) == [t |-> t, s |-> s, keys |-> keys]

Str(s) == FV("str", s, {})

\* Python None: what a JSON null parses to and what dict.get returns for a
\* missing key.
None == FV("null", "", {})

RemovalValues ==
    { Str("Recommended"), Str("Expert"), Str("Safe"), Str("Disruptive"),
      Str("recommended"), Str("Unknown"), None,
      FV("arr", "Recommended", {}), FV("num", "1", {}),
      FV("obj", "", {"removal"}) }

OtherValues == { FV("num", "1", {}), FV("obj", "", {"labels", "neededBy"}) }

StripValue == FV("arr", "x", {})

FieldValues == RemovalValues \cup OtherValues \cup {StripValue}

EmptyRec == [k \in {} |-> None]

Obj(r) == [t |-> "obj", toks |-> <<>>, rec |-> r]

NonObj(t, toks) == [t |-> t, toks |-> toks, rec |-> EmptyRec]

\* Every dict over FieldNames: the three strippable keys hold a list, removal
\* any of RemovalValues, other any of OtherValues.
Records ==
    UNION { { r \in [ks -> FieldValues] :
                \A k \in ks :
                    /\ k \in StripKeys => r[k] = StripValue
                    /\ k = "removal" => r[k] \in RemovalValues
                    /\ k = "other" => r[k] \in OtherValues }
            : ks \in SUBSET FieldNames }

TokSeqs ==
    { <<>>, <<"x">>, <<"neededBy">>, <<"x", "labels">>, <<"dependencies", "x">>,
      <<"removal">>, <<"Recommended">> }

NonObjects ==
    { NonObj("null", <<>>), NonObj("num", <<>>), NonObj("bool", <<>>) }
        \cup { NonObj("str", ts) : ts \in TokSeqs }
        \cup { NonObj("arr", ts) : ts \in TokSeqs }

Values == { Obj(r) : r \in Records } \cup NonObjects

\* The values multi-entry Documents are built from.
CoreValues ==
    { Obj([k \in FieldNames |->
             IF k \in StripKeys THEN StripValue
             ELSE IF k = "removal" THEN Str("Recommended")
             ELSE FV("obj", "", {"labels", "neededBy"})]),
      Obj([k \in {"labels", "removal"} |->
             IF k = "labels" THEN StripValue ELSE Str("Expert")]),
      Obj([k \in {"other"} |-> FV("num", "1", {})]),
      NonObj("null", <<>>),
      NonObj("arr", <<>>) }

Range(f) == { f[i] : i \in DOMAIN f }

Injective(s) == \A i, j \in DOMAIN s : s[i] = s[j] => i = j

Entry(id, val) == [id |-> id, val |-> val]

\* Documents: ordered mappings from distinct application ids to values.
DocsOver(vals, n) ==
    UNION { { [i \in 1..m |-> Entry(ids[i], vs[i])] :
                ids \in { s \in [1..m -> AppIds] : Injective(s) },
                vs \in [1..m -> vals] }
            : m \in 0..n }

\* The inputs: every Document of at most MaxApps entries over CoreValues, and
\* every single-entry Document over Values.
Documents == DocsOver(CoreValues, MaxApps) \cup DocsOver(Values, 1)

Keys(doc) == [i \in DOMAIN doc |-> doc[i].id]

----------------------------------------------------------------------------
(* Python operations the loop body applies to app_data *)

\* `key in app_data`: dict membership, substring test on a str, element test
\* on a list; None, numbers and booleans are not iterable.
Contains(v, key) ==
    CASE v.t = "obj" -> IF key \in DOMAIN v.rec THEN "true" ELSE "false"
      [] v.t \in {"str", "arr"} -> IF key \in Range(v.toks) THEN "true" ELSE "false"
      [] OTHER -> "TypeError"

\* `del app_data[key]`, reached only when `key in app_data` was true.
\* str and list reject a str subscript deletion.
DelItem(v, key) ==
    IF v.t = "obj"
    THEN [err |-> "none",
          val |-> [v EXCEPT !.rec = [k \in DOMAIN v.rec \ {key} |-> v.rec[k]]]]
    ELSE [err |-> "TypeError", val |-> v]

\* Variant: the membership test is made but the key is never deleted.
RemoveIfPresent_NoDelete(v, key) ==
    IF Contains(v, key) = "TypeError"
    THEN [err |-> "TypeError", val |-> v]
    ELSE [err |-> "none", val |-> v]

\* `if key in app_data: del app_data[key]`
RemoveIfPresent(v, key) ==
    LET c == Contains(v, key)
    IN  CASE c = "TypeError" -> [err |-> "TypeError", val |-> v]
          [] c = "true" -> DelItem(v, key)
          [] OTHER -> [err |-> "none", val |-> v]

\* Variant: a lookup that answers None for anything that is not a dict
\* (getattr-style access with a default).
Get_Lenient(v, key) ==
    [err |-> "none",
     val |-> IF v.t = "obj" /\ key \in DOMAIN v.rec THEN v.rec[key] ELSE None]

\* `app_data.get('removal')`: only a dict has .get; a missing key gives None.
Get(v, key) ==
    IF v.t = "obj"
    THEN [err |-> "none", val |-> IF key \in DOMAIN v.rec THEN v.rec[key] ELSE None]
    ELSE [err |-> "AttributeError", val |-> None]

\* Variant: the comparison looks at the text only (str(x) == "literal").
EqStr_TextOnly(x, lit) == x.s = lit

\* `x == "literal"`: true only of a str with that text.
EqStr(x, lit) == x.t = "str" /\ x.s = lit

\* `app_data[key] = x` on a dict.
SetItem(v, key, x) ==
    [v EXCEPT !.rec = [k \in DOMAIN v.rec \cup {key} |-> IF k = key THEN x ELSE v.rec[k]]]

\* Variant: the "Recommended" branch is missing.
Rename_NoRecommended(v, removal) ==
    IF EqStr(removal, "Expert") THEN SetItem(v, "removal", Str("Disruptive"))
    ELSE v

\* Variant: the elif branch is missing.
Rename_NoElif(v, removal) ==
    IF EqStr(removal, "Recommended") THEN SetItem(v, "removal", Str("Safe"))
    ELSE v

\* Variant: "Recommended" is renamed to a tier that is itself renamed.
Rename_Chained(v, removal) ==
    IF EqStr(removal, "Recommended") THEN SetItem(v, "removal", Str("Expert"))
    ELSE IF EqStr(removal, "Expert") THEN SetItem(v, "removal", Str("Disruptive"))
    ELSE v

\* Lines 20-24: the if / elif on the value read at line 19.
Rename(v, removal) ==
    IF EqStr(removal, "Recommended") THEN SetItem(v, "removal", Str("Safe"))
    ELSE IF EqStr(removal, "Expert") THEN SetItem(v, "removal", Str("Disruptive"))
    ELSE v

----------------------------------------------------------------------------
(* The run *)

VARIABLES
    pc,        \* the statement about to execute, "done" or "failed"
    inFile,    \* uad_lists2.json on disk: [kind, doc]
    outFile,   \* uad_listNew.json on disk: [state, content]
    outFile0,  \* uad_listNew.json as it was before the run
    handles,   \* the file objects currently open
    data,      \* the parsed Document, mutated in place
    idx,       \* position of the dict iterator: entries 1..idx were yielded
    removal,   \* the local variable of line 19
    err        \* the exception that ended the run, or "none"

vars == <<pc, inFile, outFile, outFile0, handles, data, idx, removal, err>>

\* What uad_lists2.json may be: missing, not JSON, JSON whose top level is a
\* list, or a Document.
InFiles ==
    { [kind |-> k, doc |-> <<>>] : k \in {"missing", "malformed", "list"} }
        \cup { [kind |-> "document", doc |-> d] : d \in Documents }

Absent == [state |-> "absent", content |-> <<>>]

\* A file left by an earlier run; its content is told apart from anything
\* this run writes by its state.
Old == [state |-> "old", content |-> <<>>]

Init ==
    /\ pc = "L4"
    /\ inFile \in InFiles
    /\ outFile0 \in {Absent, Old}
    /\ outFile = outFile0
    /\ handles = {}
    /\ data = <<>>
    /\ idx = 0
    /\ removal = None
    /\ err = "none"

\* Variant: plain open() without `with`: nothing closes the file.
WithExit_Leak(hs, h) == hs

\* Leaving a `with` block, normally or by an exception, closes its file.
WithExit(hs, h) == hs \ {h}

\* Variant: the exception is caught and the script goes on to save.
Raise_Swallowed(e) ==
    /\ pc' = "L27"
    /\ err' = e
    /\ handles' = handles

\* An exception propagates out of every enclosing `with` block; nothing
\* catches it.
Raise(e) ==
    /\ pc' = "failed"
    /\ err' = e
    /\ handles' = WithExit(WithExit(handles, "new_file"), "file")

\* Line 4: open("uad_lists2.json", "r")
OpenInput ==
    /\ pc = "L4"
    /\ IF inFile.kind = "missing"
       THEN Raise("FileNotFoundError")
       ELSE /\ handles' = handles \cup {"file"}
            /\ pc' = "L5"
            /\ err' = err
    /\ UNCHANGED <<inFile, outFile, outFile0, data, idx, removal>>

\* json.load of a well-formed file gives the value the text denotes.
Parse(f) == f.doc

\* Line 5: data = json.load(file)
Load ==
    /\ pc = "L5"
    /\ IF inFile.kind = "malformed"
       THEN Raise("JSONDecodeError") /\ data' = data
       ELSE /\ data' = Parse(inFile)
            /\ pc' = "L6"
            /\ UNCHANGED <<handles, err>>
    /\ UNCHANGED <<inFile, outFile, outFile0, idx, removal>>

\* Line 6: data.items() -- a list has no .items
Items ==
    /\ pc = "L6"
    /\ IF inFile.kind = "list"
       THEN Raise("AttributeError")
       ELSE pc' = "L6next" /\ UNCHANGED <<handles, err>>
    /\ UNCHANGED <<inFile, outFile, outFile0, data, idx, removal>>

\* Variant: the loop stops one entry short.
Exhausted_Early(i, d) == i >= Len(d) - 1

\* The dict iterator is exhausted once it has yielded every entry.
Exhausted(i, d) == i >= Len(d)

\* Line 6: the for statement takes the next item or leaves the loop.
ForNext ==
    /\ pc = "L6next"
    /\ IF Exhausted(idx, data)
       THEN pc' = "L27" /\ idx' = idx
       ELSE pc' = "L9" /\ idx' = idx + 1
    /\ UNCHANGED <<inFile, outFile, outFile0, handles, data, removal, err>>

app_data == data[idx].val

\* Variant: the entry is popped and inserted again, which moves it to the
\* end of the dict.
Store_Reinsert(d, i, v) ==
    Append([j \in 1..(Len(d) - 1) |-> IF j < i THEN d[j] ELSE d[j + 1]],
           Entry(d[i].id, v))

\* app_data is a reference to the dict held by data: a change made through it
\* changes the value of entry i where it stands.
Store(d, i, v) == [d EXCEPT ![i].val = v]

\* `if key in app_data: del app_data[key]` at the statement `at`.
RemoveKey(at, key, next) ==
    /\ pc = at
    /\ LET r == RemoveIfPresent(app_data, key)
       IN  IF r.err # "none"
           THEN Raise(r.err) /\ data' = data
           ELSE /\ data' = Store(data, idx, r.val)
                /\ pc' = next
                /\ UNCHANGED <<handles, err>>
    /\ UNCHANGED <<inFile, outFile, outFile0, idx, removal>>

\* Lines 9-10
RemoveNeededBy == RemoveKey("L9", "neededBy", "L12")

\* Lines 12-13
RemoveLabels == RemoveKey("L12", "labels", "L15")

\* Lines 15-16
RemoveDependencies == RemoveKey("L15", "dependencies", "L19")

\* Line 19: removal = app_data.get('removal')
GetRemoval ==
    /\ pc = "L19"
    /\ LET r == Get(app_data, "removal")
       IN  IF r.err # "none"
           THEN Raise(r.err) /\ removal' = removal
           ELSE /\ removal' = r.val
                /\ pc' = "L20"
                /\ UNCHANGED <<handles, err>>
    /\ UNCHANGED <<inFile, outFile, outFile0, data, idx>>

\* Lines 20-24
RenameRemoval ==
    /\ pc = "L20"
    /\ data' = Store(data, idx, Rename(app_data, removal))
    /\ pc' = "L6next"
    /\ UNCHANGED <<inFile, outFile, outFile0, handles, idx, removal, err>>

\* Line 27: open("uad_listNew.json", "w") creates or truncates the file, or
\* fails and leaves the path as it was.
OpenOutput ==
    /\ pc = "L27"
    /\ \/ Raise("PermissionError") /\ outFile' = outFile
       \/ /\ outFile' = [state |-> "new", content |-> <<>>]
          /\ handles' = handles \cup {"new_file"}
          /\ pc' = "L28"
          /\ err' = err
    /\ UNCHANGED <<inFile, outFile0, data, idx, removal>>

\* Line 28: json.dump writes the Document piece by piece, in Document order;
\* a write may fail and leave the file truncated.
Dump ==
    /\ pc = "L28"
    /\ \/ /\ Len(outFile.content) < Len(data)
          /\ outFile' = [outFile EXCEPT
                           !.content = Append(@, data[Len(outFile.content) + 1])]
          /\ UNCHANGED <<pc, handles, err>>
       \/ /\ Len(outFile.content) < Len(data)
          /\ Raise("OSError")
          /\ outFile' = outFile
       \/ /\ Len(outFile.content) = Len(data)
          /\ pc' = "X27"
          /\ UNCHANGED <<outFile, handles, err>>
    /\ UNCHANGED <<inFile, outFile0, data, idx, removal>>

\* End of the inner `with`: new_file is closed.
CloseOutput ==
    /\ pc = "X27"
    /\ handles' = WithExit(handles, "new_file")
    /\ pc' = "X4"
    /\ UNCHANGED <<inFile, outFile, outFile0, data, idx, removal, err>>

\* End of the outer `with`: file is closed and the script ends.
CloseInput ==
    /\ pc = "X4"
    /\ handles' = WithExit(handles, "file")
    /\ pc' = "done"
    /\ UNCHANGED <<inFile, outFile, outFile0, data, idx, removal, err>>

Next ==
    \/ OpenInput
    \/ Load
    \/ Items
    \/ ForNext
    \/ RemoveNeededBy
    \/ RemoveLabels
    \/ RemoveDependencies
    \/ GetRemoval
    \/ RenameRemoval
    \/ OpenOutput
    \/ Dump
    \/ CloseOutput
    \/ CloseInput

Spec == Init /\ [][Next]_vars

----------------------------------------------------------------------------
(* The transformer as a function, and the vocabulary of the properties *)

\* Lines 9-24 applied to one entry whose value is a dict.
Body(v) ==
    LET a == RemoveIfPresent(v, "neededBy").val
        b == RemoveIfPresent(a, "labels").val
        c == RemoveIfPresent(b, "dependencies").val
    IN  Rename(c, Get(c, "removal").val)

\* Lines 6-24 applied to a Document whose entries are all dicts.
Transform(doc) == [i \in DOMAIN doc |-> Entry(doc[i].id, Body(doc[i].val))]

Input == inFile.doc

\* The records uad_listNew.json holds, once this run has opened it.
Output == IF outFile.state = "new" THEN outFile.content ELSE <<>>

IsObj(v) == v.t = "obj"

Has(v, k) == IsObj(v) /\ k \in DOMAIN v.rec

Loaded == pc \notin {"L4", "L5"} /\ inFile.kind = "document" /\ err # "JSONDecodeError"

InLoopBody == pc \in {"L9", "L12", "L15", "L19", "L20"}

PastLoop == pc \in {"L27", "L28", "X27", "X4", "done"}

IsPrefix(s, t) == Len(s) <= Len(t) /\ \A i \in 1..Len(s) : s[i] = t[i]

\* Position of the first entry whose value is not an object, 0 if none.
FirstNonObj(doc) ==
    IF \E i \in DOMAIN doc : ~IsObj(doc[i].val)
    THEN CHOOSE i \in DOMAIN doc :
            /\ ~IsObj(doc[i].val)
            /\ \A j \in 1..(i - 1) : IsObj(doc[j].val)
    ELSE 0

----------------------------------------------------------------------------
(* C1 *)

\* C1 as stated: every output record has exactly the input record's keys
\* other than neededBy, labels, dependencies, and every such key holds its
\* original value.
C1_AsStated ==
    \A i \in DOMAIN Output :
        /\ IsObj(Output[i].val)
        /\ DOMAIN Output[i].val.rec = DOMAIN Input[i].val.rec \ StripKeys
        /\ \A k \in DOMAIN Output[i].val.rec :
              Output[i].val.rec[k] = Input[i].val.rec[k]

\* C1, amended: every output record has exactly the input record's keys other
\* than neededBy, labels, dependencies (none of the three, no other key
\* removed, none added), and every such key holds its original value, nested
\* values included, except a removal that was "Recommended" or "Expert".
C1_FieldsStripped ==
    \A i \in DOMAIN Output :
        /\ IsObj(Output[i].val)
        /\ DOMAIN Output[i].val.rec = DOMAIN Input[i].val.rec \ StripKeys
        /\ \A k \in DOMAIN Output[i].val.rec :
              \/ Output[i].val.rec[k] = Input[i].val.rec[k]
              \/ /\ k = "removal"
                 /\ Input[i].val.rec[k] \in {Str("Recommended"), Str("Expert")}

\* A finished run whose input record had all three keys and a nested value
\* with keys of those names.
C1_Witness ==
    /\ pc = "done"
    /\ \E i \in DOMAIN Output :
          /\ StripKeys \subseteq DOMAIN Input[i].val.rec
          /\ Has(Input[i].val, "other")
          /\ "labels" \in Input[i].val.rec["other"].keys
          /\ Output[i].val.rec["other"] = Input[i].val.rec["other"]
          /\ Has(Input[i].val, "removal")
          /\ Input[i].val.rec["removal"] = Str("Unknown")

----------------------------------------------------------------------------
(* C2 *)

\* C2: an input record whose removal is the string "Recommended" has removal
\* "Safe" in the output, and no output record has removal "Recommended".
C2_RecommendedToSafe ==
    \A i \in DOMAIN Output :
        /\ (Has(Input[i].val, "removal") /\ Input[i].val.rec["removal"] = Str("Recommended"))
              => (Has(Output[i].val, "removal") /\ Output[i].val.rec["removal"] = Str("Safe"))
        /\ Has(Output[i].val, "removal") => Output[i].val.rec["removal"] # Str("Recommended")

C2_Witness ==
    /\ pc = "done"
    /\ \E i \in DOMAIN Output :
          /\ Has(Input[i].val, "removal")
          /\ Input[i].val.rec["removal"] = Str("Recommended")
          /\ Output[i].val.rec["removal"] = Str("Safe")

----------------------------------------------------------------------------
(* C3 *)

\* C3: an input record whose removal is the string "Expert" has removal
\* "Disruptive" in the output, and no output record has removal "Expert".
C3_ExpertToDisruptive ==
    \A i \in DOMAIN Output :
        /\ (Has(Input[i].val, "removal") /\ Input[i].val.rec["removal"] = Str("Expert"))
              => (Has(Output[i].val, "removal")
                    /\ Output[i].val.rec["removal"] = Str("Disruptive"))
        /\ Has(Output[i].val, "removal") => Output[i].val.rec["removal"] # Str("Expert")

C3_Witness ==
    /\ pc = "done"
    /\ \E i \in DOMAIN Output :
          /\ Has(Input[i].val, "removal")
          /\ Input[i].val.rec["removal"] = Str("Expert")
          /\ Output[i].val.rec["removal"] = Str("Disruptive")

----------------------------------------------------------------------------
(* C4 *)

\* C4: an input record whose removal is absent, or is anything but the string
\* "Recommended" or the string "Expert", has the same removal in the output:
\* the same value if present, still absent if absent.
C4_OtherRemovalUnchanged ==
    \A i \in DOMAIN Output :
        IF Has(Input[i].val, "removal")
        THEN Input[i].val.rec["removal"] \notin {Str("Recommended"), Str("Expert")}
                => /\ Has(Output[i].val, "removal")
                   /\ Output[i].val.rec["removal"] = Input[i].val.rec["removal"]
        ELSE ~Has(Output[i].val, "removal")

\* A finished run over a record whose removal is a list holding the string
\* "Recommended".
C4_Witness ==
    /\ pc = "done"
    /\ \E i \in DOMAIN Output :
          /\ Has(Input[i].val, "removal")
          /\ Input[i].val.rec["removal"] = FV("arr", "Recommended", {})
          /\ Output[i].val.rec["removal"] = FV("arr", "Recommended", {})

----------------------------------------------------------------------------
(* C5 *)

\* C5: from the moment the Document is parsed, through every step of the
\* iteration, its sequence of application ids is the input's, and so is the
\* sequence of ids written to the output.
C5_KeysPreserved ==
    /\ Loaded => Keys(data) = Keys(Input)
    /\ IsPrefix(Keys(Output), Keys(Input))
    /\ pc = "done" => Keys(Output) = Keys(Input)

\* A finished run over three entries whose ids are not in sorted order.
C5_Witness ==
    /\ pc = "done"
    /\ Len(Input) = 3
    /\ Keys(Output) = <<"com.c", "com.a", "com.b">>
    /\ Output # Input

----------------------------------------------------------------------------
(* C6 *)

\* C6: applying the transformer to the Document a run has written gives that
\* Document again.
C6_Idempotent ==
    pc = "done" => Transform(Output) = Output

\* A finished run that changed its input.
C6_Witness ==
    /\ pc = "done"
    /\ Len(Output) >= 2
    /\ \A i \in DOMAIN Output : Output[i] # Input[i]
    /\ Transform(Output) = Output

----------------------------------------------------------------------------
(* C7 *)

\* C7: when the run has ended, normally or by an exception, no file object is
\* open; and only the two files of the script are ever open.
C7_HandlesReleased ==
    /\ handles \subseteq {"file", "new_file"}
    /\ pc \in {"done", "failed"} => handles = {}

\* The run ended by a failed write, which happens with both files open.
C7_Witness ==
    /\ pc = "failed"
    /\ err = "OSError"
    /\ outFile.state = "new"
    /\ handles = {}

----------------------------------------------------------------------------
(* C8 *)

\* C8: while records are being transformed the input file has been opened and
\* parsed, the entries not yet reached are still as parsed and the output is
\* untouched; once the output file is open or changed, the Document in memory
\* is the fully transformed input and what is written is a prefix of it.
C8_PhaseOrder ==
    /\ pc \in {"L4", "L5"} => data = <<>> /\ outFile = outFile0
    /\ InLoopBody =>
          /\ Loaded
          /\ "file" \in handles
          /\ outFile = outFile0
          /\ "new_file" \notin handles
          /\ \A i \in (idx + 1)..Len(data) : data[i] = Input[i]
    /\ ("new_file" \in handles \/ outFile # outFile0) =>
          /\ data = Transform(Input)
          /\ IsPrefix(outFile.content, Transform(Input))

\* The output is being written and the last entry of the input needed a
\* change.
C8_Witness ==
    /\ pc = "L28"
    /\ Len(Input) >= 2
    /\ Len(outFile.content) = Len(Input)
    /\ Input[Len(Input)] # outFile.content[Len(Input)]

----------------------------------------------------------------------------
(* C9 *)

EarlyErrors == {"FileNotFoundError", "JSONDecodeError", "AttributeError", "TypeError"}

C9_State ==
    /\ err # "none" <=> pc = "failed"
    /\ err \in EarlyErrors => outFile = outFile0 /\ Output = <<>>
    /\ pc = "failed" => ~PastLoop

\* C9: an exception ends the run where it is raised -- the run is failed
\* exactly when an exception was raised and no step follows -- and after an
\* exception raised before the loop has finished uad_listNew.json is as it
\* was before the run.
C9_ErrorsAbort == [](C9_State) /\ [][pc # "failed"]_vars

\* A run that failed in the loop while an earlier uad_listNew.json existed.
C9_Witness ==
    /\ pc = "failed"
    /\ err = "TypeError"
    /\ idx = 2
    /\ outFile0 = Old
    /\ outFile = Old

----------------------------------------------------------------------------
(* C10 *)

\* C10: when entry b is the first whose value is not an object, the loop
\* never gets past b's statements except by failing there with a TypeError
\* or an AttributeError; at the failure the entries before b are transformed,
\* b and the entries after it are as parsed, and the output is untouched.
C10_NonObjectFails ==
    LET b == FirstNonObj(Input)
    IN  (Loaded /\ b # 0) =>
          /\ idx <= b
          /\ ~PastLoop
          /\ outFile = outFile0
          /\ idx = b => pc \in {"L9", "L12", "L15", "L19", "failed"}
          /\ pc = "failed" =>
                /\ idx = b
                /\ err \in {"TypeError", "AttributeError"}
                /\ \A i \in 1..(b - 1) : data[i].val = Body(Input[i].val)
                /\ \A i \in b..Len(data) : data[i] = Input[i]

\* The run failed on a list standing second of three entries, after the first
\* entry was changed.
C10_Witness ==
    /\ pc = "failed"
    /\ Len(Input) = 3
    /\ idx = 2
    /\ Input[2].val.t = "arr"
    /\ err = "AttributeError"
    /\ data[1] # Input[1]
    /\ IsObj(Input[3].val)
    /\ data[3] = Input[3]

====
